---- MODULE Spec2Model ----
(***************************************************************************)
(* Keyword co-occurrence network builder and analyzer of streamlit_app.py. *)
(*                                                                         *)
(* Strings are sequences of one-character strings, so that substring       *)
(* containment, splitting, trimming and lexicographic order are computed   *)
(* as the Python code computes them.  A dict is a sequence of <<key,       *)
(* value>> pairs in insertion order.  A float is an exact fraction         *)
(* <<num, den>> with den > 0 (IEEE rounding is not modelled).              *)
(***************************************************************************)
EXTENDS Integers, Sequences, FiniteSets, TLC

VARIABLES
    pc,               \* position of the running request
    text,             \* create_network_analysis: argument text
    keywords_dict,    \* create_network_analysis: argument keywords_dict
    min_cooccurrence, \* create_network_analysis: argument min_cooccurrence
    sentences,        \* re.split result
    sent_idx,         \* index of the next sentence of the for loop
    co_occurrence,    \* the Counter: function from <<k1, k2>> to count
    G,                \* the returned graph (or None)
    cent,             \* the three centrality dicts of the try block
    metrics,          \* the metrics dict of analyze_network_metrics
    response_text,    \* parse_gpt_response: argument
    items,            \* response_text.split(',')
    item_idx,         \* index of the next item of the for loop
    parsed            \* keywords_dict being built by parse_gpt_response

vars == <<pc, text, keywords_dict, min_cooccurrence, sentences, sent_idx,
          co_occurrence, G, cent, metrics, response_text, items, item_idx,
          parsed>>

cnaVars == <<text, keywords_dict, min_cooccurrence, sentences, sent_idx,
             co_occurrence>>
parseVars == <<response_text, items, item_idx, parsed>>

----------------------------------------------------------------------------
(* Bounds of the explored inputs *)

MaxTextLen == 5
MaxThreshold == 2
MaxEdges == 5
MaxRespLen == 5
MaxSplitLen == 4

\* characters of the explored texts: two letters, a terminator, a blank
TextAlphabet == {"a", "b", ".", " "}
\* keywords of the explored keyword dicts ("a" occurs inside "ab")
KeywordUniverse == {<<"a">>, <<"b">>, <<"a", "b">>}
\* characters of the texts explored for the splitter: a letter, the three
\* terminators, a blank
SplitAlphabet == {"a", ".", "!", "?", " "}
\* keywords explored with them: two plain ones ("a" occurs inside "aa") and
\* one with each terminator
SplitKeywords == <<(<<"a">>), (<<"a", "a">>), (<<"a", ".">>), (<<"!">>), (<<"a", "?">>)>>
\* characters of the explored model responses
RespAlphabet == {"a", " ", ",", "1", "0"}
\* weights given to the explored keywords
InputWeights == {5}
\* keywords of the explored graphs of the analyzer, in node order: one more
\* than the top list holds
MetricNodes == <<(<<"a">>), (<<"b">>), (<<"c">>), (<<"d">>), (<<"e">>), (<<"f">>)>>

----------------------------------------------------------------------------
(* Strings *)

\* code point of a character (only their order is used)
Ord(c) ==
    CASE c = "\t" -> 9
      [] c = "\n" -> 10
      [] c = " " -> 32
      [] c = "!" -> 33
      [] c = "+" -> 43
      [] c = "," -> 44
      [] c = "-" -> 45
      [] c = "." -> 46
      [] c = "0" -> 48
      [] c = "1" -> 49
      [] c = "2" -> 50
      [] c = "5" -> 53
      [] c = "9" -> 57
      [] c = "?" -> 63
      [] c = "a" -> 97
      [] c = "b" -> 98
      [] c = "c" -> 99
      [] c = "d" -> 100
      [] c = "e" -> 101
      [] c = "f" -> 102
      [] c = "g" -> 103

\* str < str of Python: lexicographic by code point, a proper prefix is smaller
StrLess(s, t) ==
    \E i \in 1..(Len(t)) :
        /\ \A j \in 1..(i - 1) : j <= Len(s) /\ s[j] = t[j]
        /\ i - 1 <= Len(s)
        /\ \/ i > Len(s)
           \/ Ord(s[i]) < Ord(t[i])

\* `keyword in sentence`: literal, case-sensitive substring test
Contains(keyword, sentence) ==
    \E i \in 0..(Len(sentence) - Len(keyword)) :
        SubSeq(sentence, i + 1, i + Len(keyword)) = keyword

\* the characters \s matches and str.strip() removes
Whitespace == {" ", "\t", "\n"}

\* faulty variant: the character class holds the full stop only
TerminatorsDotOnly == {"."}

\* the character class [.!?]
Terminators == {".", "!", "?"}

\* first index >= i of t that is not whitespace (Len(t)+1 if none): \s*
RECURSIVE SkipWs(_, _)
SkipWs(t, i) ==
    IF i <= Len(t) /\ t[i] \in Whitespace THEN SkipWs(t, i + 1) ELSE i

\* re.split(r'[.!?]\s*', t) from index i on, cur being the open fragment
RECURSIVE SplitFrom(_, _, _)
SplitFrom(t, i, cur) ==
    IF i > Len(t) THEN <<cur>>
    ELSE IF t[i] \in Terminators
         THEN <<cur>> \o SplitFrom(t, SkipWs(t, i + 1), <<>>)
         ELSE SplitFrom(t, i + 1, Append(cur, t[i]))

ReSplit(t) == SplitFrom(t, 1, <<>>)

----------------------------------------------------------------------------
(* Dicts: sequences of <<key, value>> in insertion order *)

Keys(d) == [i \in 1..Len(d) |-> d[i][1]]
KeySet(d) == {d[i][1] : i \in 1..Len(d)}
HasKey(d, k) == \E i \in 1..Len(d) : d[i][1] = k
Get(d, k, default) ==
    IF HasKey(d, k) THEN d[CHOOSE i \in 1..Len(d) : d[i][1] = k][2]
    ELSE default
\* d[k] = v: an existing key keeps its position
Put(d, k, v) ==
    IF HasKey(d, k)
    THEN [i \in 1..Len(d) |-> IF d[i][1] = k THEN <<k, v>> ELSE d[i]]
    ELSE Append(d, <<k, v>>)

----------------------------------------------------------------------------
(* parse_gpt_response *)

\* str.strip(): leading and trailing whitespace removed
RECURSIVE LStrip(_)
LStrip(str) ==
    IF str # <<>> /\ Head(str) \in Whitespace THEN LStrip(Tail(str)) ELSE str
RECURSIVE RStrip(_)
RStrip(str) ==
    IF str # <<>> /\ str[Len(str)] \in Whitespace
    THEN RStrip(SubSeq(str, 1, Len(str) - 1))
    ELSE str
Strip(str) == LStrip(RStrip(str))

\* str.split(sep) for a one-character separator, from index i on
RECURSIVE SplitOn(_, _, _, _)
SplitOn(str, sep, i, cur) ==
    IF i > Len(str) THEN <<cur>>
    ELSE IF str[i] = sep THEN <<cur>> \o SplitOn(str, sep, i + 1, <<>>)
    ELSE SplitOn(str, sep, i + 1, Append(cur, str[i]))

\* index of the last occurrence of c in str, 0 if there is none
LastIndexOf(str, c) ==
    IF \E i \in 1..Len(str) : str[i] = c
    THEN CHOOSE i \in 1..Len(str) :
             str[i] = c /\ \A j \in (i + 1)..Len(str) : str[j] # c
    ELSE 0

\* item.rsplit(' ', 1)
RSplit1(item) ==
    LET i == LastIndexOf(item, " ")
    IN  IF i = 0 THEN <<item>>
        ELSE <<SubSeq(item, 1, i - 1), SubSeq(item, i + 1, Len(item))>>

Digits == {"0", "1", "2", "5", "9"}

RECURSIVE DigitsValue(_, _)
DigitsValue(ds, acc) ==
    IF ds = <<>> THEN acc
    ELSE DigitsValue(Tail(ds), 10 * acc + (Ord(Head(ds)) - 48))

\* int(str): surrounding whitespace and one sign are accepted; anything but
\* decimal digits after them is a ValueError (ok = FALSE)
IntOf(str) ==
    LET t == Strip(str)
        signed == t # <<>> /\ Head(t) \in {"+", "-"}
        ds == IF signed THEN Tail(t) ELSE t
    IN  IF ds # <<>> /\ \A i \in 1..Len(ds) : ds[i] \in Digits
        THEN [ok |-> TRUE,
              val |-> IF signed /\ Head(t) = "-"
                      THEN 0 - DigitsValue(ds, 0) ELSE DigitsValue(ds, 0)]
        ELSE [ok |-> FALSE, val |-> 0]

\* faulty variant: the weight is stored without the range check of line 129
ItemEntryNoRange(item) ==
    LET parts == RSplit1(item)
    IN  IF Len(parts) = 2
        THEN IF IntOf(parts[2]).ok
             THEN <<Strip(parts[1]), IntOf(parts[2]).val>>
             ELSE <<item, 5>>
        ELSE <<item, 5>>

\* lines 123-136: the key and the weight stored for a non-empty item
ItemEntry(item) ==
    LET parts == RSplit1(item)
    IN  IF Len(parts) = 2
        THEN LET keyword == Strip(parts[1])
                 weight == IntOf(parts[2])
             IN  IF weight.ok
                 THEN IF 1 <= weight.val /\ weight.val <= 10
                      THEN <<keyword, weight.val>>
                      ELSE <<keyword, 5>>
                 ELSE <<item, 5>>
        ELSE <<item, 5>>

----------------------------------------------------------------------------
(* create_network_analysis: co-occurrence counting *)

\* the inner for loop: keywords of keyword_list found in the sentence
FoundKeywords(keyword_list, sentence) ==
    SelectSeq(keyword_list, LAMBDA k : Contains(k, sentence))

\* itertools.combinations(found, 2), in its emission order
RECURSIVE CombosFrom(_, _, _)
CombosFrom(found, i, j) ==
    IF i >= Len(found) THEN <<>>
    ELSE IF j > Len(found) THEN CombosFrom(found, i + 1, i + 2)
    ELSE <<(<<found[i], found[j]>>)>> \o CombosFrom(found, i, j + 1)

\* faulty variant: only the neighbouring found keywords are paired
AdjacentPairs(found) ==
    [i \in 1..(IF Len(found) = 0 THEN 0 ELSE Len(found) - 1) |->
        <<found[i], found[i + 1]>>]

\* faulty variant: itertools.combinations_with_replacement, which pairs a keyword
\* with itself
CombinationsWithReplacement(found) == CombosFrom(found, 1, 2) \o
    [i \in 1..Len(found) |-> <<found[i], found[i]>>]

Combinations2(found) == CombosFrom(found, 1, 2)

\* tuple(sorted(combo)): stable, so equal or ordered elements stay in place
SortedCombo(combo) ==
    IF StrLess(combo[2], combo[1]) THEN <<combo[2], combo[1]>> ELSE combo

\* Counter[key] += 1
Incr(counter, key) ==
    IF key \in DOMAIN counter
    THEN [counter EXCEPT ![key] = @ + 1]
    ELSE [k \in (DOMAIN counter) \cup {key} |->
             IF k = key THEN 1 ELSE counter[k]]

\* the loop over the combinations of one sentence
RECURSIVE CountCombos(_, _, _)
CountCombos(counter, combos, i) ==
    IF i > Len(combos) THEN counter
    ELSE CountCombos(Incr(counter, SortedCombo(combos[i])), combos, i + 1)

EmptyCounter == [k \in {} |-> 0]

\* lines 165-175: the body of `for sentence in sentences`
CountSentence(counter, keyword_list, sentence) ==
    CountCombos(counter, Combinations2(FoundKeywords(keyword_list, sentence)), 1)

\* lines 164-175: the whole loop, from sentence i on
RECURSIVE CountSentences(_, _, _, _)
CountSentences(counter, keyword_list, sents, i) ==
    IF i > Len(sents) THEN counter
    ELSE CountSentences(CountSentence(counter, keyword_list, sents[i]),
                        keyword_list, sents, i + 1)

----------------------------------------------------------------------------
(* Graphs: nx.Graph with its node order, node weights and weighted edges *)

\* an edge is the set of its endpoints ({v} would be a self-loop)
NoneGraph == [none |-> TRUE, nodes |-> <<>>, weight |-> <<>>, edges |-> <<>>]

NodeSet(g) == {g.nodes[i] : i \in 1..Len(g.nodes)}
EdgeSet(g) == DOMAIN g.edges
NumberOfNodes(g) == Len(g.nodes)
NumberOfEdges(g) == Cardinality(EdgeSet(g))
Neighbors(g, v) == {u \in NodeSet(g) : {u, v} \in EdgeSet(g)}
\* G.degree: a self-loop counts twice
Degree(g, v) ==
    Cardinality({e \in EdgeSet(g) : v \in e})
        + (IF {v} \in EdgeSet(g) THEN 1 ELSE 0)

\* the orders in which a Python set of strings may be iterated
Orders(S) ==
    {f \in [1..Cardinality(S) -> S] :
        \A i, j \in 1..Cardinality(S) : i # j => f[i] # f[j]}

\* faulty variant: the comparison is strict
FilterStrict(counter, threshold) ==
    [k \in {q \in DOMAIN counter : counter[q] > threshold} |-> counter[k]]

\* faulty variant: the comparison is an equality
FilterExact(counter, threshold) ==
    [k \in {q \in DOMAIN counter : counter[q] = threshold} |-> counter[k]]

\* line 178: the dict comprehension keeping the counts >= min_cooccurrence
FilterCoOccurrence(counter, threshold) ==
    [k \in {q \in DOMAIN counter : counter[q] >= threshold} |-> counter[k]]

\* lines 188-191: the endpoints of the surviving pairs
NodesToAdd(filtered) ==
    {k[1] : k \in DOMAIN filtered} \cup {k[2] : k \in DOMAIN filtered}

\* faulty variant: every keyword of keywords_dict becomes a node
BuildGraphAllKeywords(filtered, kd, order) ==
    LET es == {{k[1], k[2]} : k \in DOMAIN filtered}
        ns == order \o SelectSeq(Keys(kd),
                  LAMBDA v : \A i \in 1..Len(order) : order[i] # v)
    IN  [none |-> FALSE,
         nodes |-> ns,
         weight |-> [v \in {ns[i] : i \in 1..Len(ns)} |-> Get(kd, v, 1)],
         edges |-> [e \in es |->
                      filtered[CHOOSE k \in DOMAIN filtered :
                                  {k[1], k[2]} = e]]]

\* lines 184-199: the graph, its nodes added in the set's iteration order;
\* add_edge also adds an endpoint that is not yet a node
BuildGraph(filtered, kd, order) ==
    LET es == {{k[1], k[2]} : k \in DOMAIN filtered}
        late == {v \in UNION es : \A i \in 1..Len(order) : order[i] # v}
        rest == CHOOSE f \in Orders(late) : TRUE
        ns == order \o rest
    IN  [none |-> FALSE,
         nodes |-> ns,
         weight |-> [v \in {ns[i] : i \in 1..Len(ns)} |-> Get(kd, v, 1)],
         edges |-> [e \in es |->
                      filtered[CHOOSE k \in DOMAIN filtered :
                                  {k[1], k[2]} = e]]]

\* lines 152-204 as one function of its arguments and of the iteration
\* order of the node set
CreateNetworkAnalysis(t, kd, threshold, order) ==
    IF Len(kd) < 2 THEN NoneGraph
    ELSE LET counter == CountSentences(EmptyCounter, Keys(kd), ReSplit(t), 1)
             filtered == FilterCoOccurrence(counter, threshold)
         IN  IF DOMAIN filtered = {} THEN NoneGraph
             ELSE LET g == BuildGraph(filtered, kd, order)
                  IN  IF NumberOfNodes(g) < 2 THEN NoneGraph ELSE g

----------------------------------------------------------------------------
(* Fractions *)

RECURSIVE Gcd(_, _)
Gcd(a, b) == IF b = 0 THEN a ELSE Gcd(b, a % b)

Frac(n, d) == IF n = 0 THEN <<0, 1>> ELSE <<n \div Gcd(n, d), d \div Gcd(n, d)>>
FracAdd(x, y) == Frac(x[1] * y[2] + y[1] * x[2], x[2] * y[2])
FracMul(x, y) == Frac(x[1] * y[1], x[2] * y[2])
FracEq(x, y) == x[1] * y[2] = y[1] * x[2]
FracLess(x, y) == x[1] * y[2] < y[1] * x[2]
FracLeq(x, y) == x[1] * y[2] <= y[1] * x[2]

----------------------------------------------------------------------------
(* networkx: connectivity and shortest paths *)

\* breadth-first search: the nodes at distance d are `frontier`
RECURSIVE BfsDist(_, _, _, _, _)
BfsDist(g, frontier, seen, d, dist) ==
    IF frontier = {} THEN dist
    ELSE LET nxt == (UNION {Neighbors(g, v) : v \in frontier}) \ seen
             dist2 == [v \in (DOMAIN dist) \cup frontier |->
                          IF v \in frontier THEN d ELSE dist[v]]
         IN  BfsDist(g, nxt, seen \cup nxt, d + 1, dist2)

\* nx.single_source_shortest_path_length: reachable node -> distance
PathLength(g, s) == BfsDist(g, {s}, {s}, 0, [v \in {} |-> 0])

\* nx.number_connected_components
NumberConnectedComponents(g) ==
    Cardinality({DOMAIN PathLength(g, s) : s \in NodeSet(g)})

\* nx.is_connected (the graph has at least one node here)
IsConnected(g) == DOMAIN PathLength(g, g.nodes[1]) = NodeSet(g)

\* faulty variant: the density of a directed graph, without the doubling
DensityDirected(g) ==
    LET n == NumberOfNodes(g)
        m == NumberOfEdges(g)
    IN  IF n = 0 \/ m = 0 THEN Frac(0, 1) ELSE Frac(m, n * (n - 1))

\* nx.density of an undirected graph: m / (n (n - 1)), then doubled
Density(g) ==
    LET n == NumberOfNodes(g)
        m == NumberOfEdges(g)
    IN  IF n = 0 \/ m = 0 THEN Frac(0, 1)
        ELSE FracMul(Frac(m, n * (n - 1)), Frac(2, 1))

----------------------------------------------------------------------------
(* networkx: the three centralities, as dicts in node order *)

\* faulty variant: the degree is divided by the number of nodes
DegreeCentralityByN(g) ==
    LET n == NumberOfNodes(g)
    IN  [i \in 1..n |->
            <<g.nodes[i],
              FracMul(Frac(Degree(g, g.nodes[i]), 1), Frac(1, n))>>]

\* nx.degree_centrality: degree times 1 / (n - 1)
DegreeCentrality(g) ==
    LET n == NumberOfNodes(g)
    IN  [i \in 1..n |->
            <<g.nodes[i],
              IF n <= 1 THEN Frac(1, 1)
              ELSE FracMul(Frac(Degree(g, g.nodes[i]), 1), Frac(1, n - 1))>>]

\* number of shortest paths from s to t, dist being PathLength(g, s)
RECURSIVE Sigma(_, _, _, _)
Sigma(g, dist, s, t) ==
    IF s = t THEN 1
    ELSE LET preds == {u \in Neighbors(g, t) :
                          u \in DOMAIN dist /\ dist[u] + 1 = dist[t]}
             SumOver[P \in SUBSET preds] ==
                 IF P = {} THEN 0
                 ELSE LET u == CHOOSE x \in P : TRUE
                      IN  Sigma(g, dist, s, u) + SumOver[P \ {u}]
         IN  SumOver[preds]

\* dependency of the pair (s, t) on v: the share of the shortest s-t paths
\* through v
PairDependency(g, s, t, v) ==
    LET ds == PathLength(g, s)
        dv == PathLength(g, v)
    IN  IF t \in DOMAIN ds /\ v \in DOMAIN ds /\ t \in DOMAIN dv
           /\ ds[v] + dv[t] = ds[t]
        THEN Frac(Sigma(g, ds, s, v) * Sigma(g, dv, v, t), Sigma(g, ds, s, t))
        ELSE Frac(0, 1)

\* nx.betweenness_centrality (normalized, no endpoints): Brandes' sum over
\* the ordered pairs, rescaled by 1 / ((n - 1)(n - 2)) when n > 2
BetweennessCentrality(g) ==
    LET n == NumberOfNodes(g)
        Raw(v) ==
            LET pairs == {p \in NodeSet(g) \X NodeSet(g) :
                             p[1] # p[2] /\ p[1] # v /\ p[2] # v}
                SumOver[P \in SUBSET pairs] ==
                    IF P = {} THEN Frac(0, 1)
                    ELSE LET p == CHOOSE x \in P : TRUE
                         IN  FracAdd(PairDependency(g, p[1], p[2], v),
                                     SumOver[P \ {p}])
            IN  SumOver[pairs]
    IN  [i \in 1..n |->
            <<g.nodes[i],
              IF n <= 2 THEN Raw(g.nodes[i])
              ELSE FracMul(Raw(g.nodes[i]), Frac(1, (n - 1) * (n - 2)))>>]

\* nx.closeness_centrality (wf_improved): (r - 1) / totsp, scaled by
\* (r - 1) / (n - 1), r being the number of nodes reachable from the node
ClosenessCentrality(g) ==
    LET n == NumberOfNodes(g)
        Of(v) ==
            LET sp == PathLength(g, v)
                SumOver[P \in SUBSET DOMAIN sp] ==
                    IF P = {} THEN 0
                    ELSE LET u == CHOOSE x \in P : TRUE
                         IN  sp[u] + SumOver[P \ {u}]
                totsp == SumOver[DOMAIN sp]
                r == Cardinality(DOMAIN sp)
            IN  IF totsp > 0 /\ n > 1
                THEN FracMul(Frac(r - 1, totsp), Frac(r - 1, n - 1))
                ELSE Frac(0, 1)
    IN  [i \in 1..n |-> <<g.nodes[i], Of(g.nodes[i])>>]

----------------------------------------------------------------------------
(* analyze_network_metrics: ranking *)

\* the slice [:5] of lines 318, 320 and 322
TopN == 5

\* faulty variant: a later key of equal score replaces the current maximum
ArgMaxLast(d) ==
    d[CHOOSE i \in 1..Len(d) :
         /\ \A j \in 1..Len(d) : FracLeq(d[j][2], d[i][2])
         /\ \A j \in (i + 1)..Len(d) : FracLess(d[j][2], d[i][2])][1]

\* max(d, key=d.get): the first key, in dict order, no later key beats
ArgMax(d) ==
    d[CHOOSE i \in 1..Len(d) :
         /\ \A j \in 1..Len(d) : FracLeq(d[j][2], d[i][2])
         /\ \A j \in 1..(i - 1) : FracLess(d[j][2], d[i][2])][1]

\* insertion of x behind every entry whose score is not smaller: equal
\* scores keep their dict order
RECURSIVE InsertDesc(_, _)
InsertDesc(sorted, x) ==
    IF sorted = <<>> THEN <<x>>
    ELSE IF FracLess(Head(sorted)[2], x[2]) THEN <<x>> \o sorted
    ELSE <<Head(sorted)>> \o InsertDesc(Tail(sorted), x)

\* sorted(d.items(), key=lambda x: x[1], reverse=True): stable
RECURSIVE SortFrom(_, _, _)
SortFrom(d, i, acc) ==
    IF i > Len(d) THEN acc ELSE SortFrom(d, i + 1, InsertDesc(acc, d[i]))

SortedDesc(d) == SortFrom(d, 1, <<>>)

\* dict(sorted(...)[:5])
Top5(d) ==
    LET sd == SortedDesc(d)
    IN  SubSeq(sd, 1, IF Len(sd) < TopN THEN Len(sd) ELSE TopN)

----------------------------------------------------------------------------
(* metrics: a dict with string keys; a value that is a float or a message, *)
(* a node or a message, carries a tag                                      *)

EmptyMetrics == [k \in {} |-> 0]
SetKey(m, k, v) == [x \in (DOMAIN m) \cup {k} |-> IF x = k THEN v ELSE m[x]]

FloatVal(x) == [tag |-> "float", val |-> x]
NodeVal(v) == [tag |-> "node", val |-> v]
StrVal(str) == [tag |-> "str", val |-> str]

\* line 303 (the message is Korean in the source)
NotConnectedMsg == "graph is not connected (density not computable)"
\* lines 326-328 (Korean in the source)
NotComputable == "not computable"
NotAvailable == "N/A"

NoCent == [degree |-> <<>>, betweenness |-> <<>>, closeness |-> <<>>]

----------------------------------------------------------------------------
(* create_network_analysis *)

\* lines 152-162: the guard, the split and the empty Counter
CnaStart ==
    /\ pc = "cna_start"
    /\ IF Len(keywords_dict) < 2
       THEN /\ G' = NoneGraph
            /\ pc' = "amx_start"
            /\ UNCHANGED <<sentences, sent_idx, co_occurrence>>
       ELSE /\ sentences' = ReSplit(text)
            /\ co_occurrence' = EmptyCounter
            /\ sent_idx' = 1
            /\ pc' = "cna_loop"
            /\ G' = G
    /\ UNCHANGED <<text, keywords_dict, min_cooccurrence, cent, metrics>>
    /\ UNCHANGED parseVars

\* lines 164-175: one iteration of `for sentence in sentences`
CnaSentence ==
    /\ pc = "cna_loop"
    /\ sent_idx <= Len(sentences)
    /\ co_occurrence' =
           CountSentence(co_occurrence, Keys(keywords_dict), sentences[sent_idx])
    /\ sent_idx' = sent_idx + 1
    /\ UNCHANGED <<pc, text, keywords_dict, min_cooccurrence, sentences, G,
                   cent, metrics>>
    /\ UNCHANGED parseVars

\* lines 177-204: the filter, the graph and the two "no graph" returns
CnaBuild ==
    /\ pc = "cna_loop"
    /\ sent_idx > Len(sentences)
    /\ LET filtered_co_occurrence ==
               FilterCoOccurrence(co_occurrence, min_cooccurrence)
       IN  IF DOMAIN filtered_co_occurrence = {}
           THEN G' = NoneGraph
           ELSE \E order \in Orders(NodesToAdd(filtered_co_occurrence)) :
                    LET g == BuildGraph(filtered_co_occurrence,
                                        keywords_dict, order)
                    IN  G' = IF NumberOfNodes(g) < 2 THEN NoneGraph ELSE g
    /\ pc' = "amx_start"
    /\ UNCHANGED <<cent, metrics>>
    /\ UNCHANGED cnaVars
    /\ UNCHANGED parseVars

----------------------------------------------------------------------------
(* analyze_network_metrics *)

\* lines 287-304: the guard, the counts, density and components
AmxStart ==
    /\ pc = "amx_start"
    /\ IF G.none \/ NumberOfNodes(G) < 2
       THEN /\ metrics' = EmptyMetrics
            /\ pc' = "done"
       ELSE /\ metrics' =
                LET m1 == SetKey(EmptyMetrics, "nodes", NumberOfNodes(G))
                    m2 == SetKey(m1, "edges", NumberOfEdges(G))
                IN  IF IsConnected(G)
                    THEN SetKey(SetKey(m2, "density", FloatVal(Density(G))),
                                "components", 1)
                    ELSE SetKey(SetKey(m2, "density", StrVal(NotConnectedMsg)),
                                "components", NumberConnectedComponents(G))
            /\ pc' = "try_centrality"
    /\ UNCHANGED <<G, cent>>
    /\ UNCHANGED cnaVars
    /\ UNCHANGED parseVars

\* lines 308-310: the three centrality dicts
TryCentrality ==
    /\ pc = "try_centrality"
    /\ cent' = [degree |-> DegreeCentrality(G),
                betweenness |-> BetweennessCentrality(G),
                closeness |-> ClosenessCentrality(G)]
    /\ pc' = "try_most_connected"
    /\ UNCHANGED <<G, metrics>>
    /\ UNCHANGED cnaVars
    /\ UNCHANGED parseVars

\* one assignment of lines 312-314
MostOf(d) == IF d # <<>> THEN NodeVal(ArgMax(d)) ELSE StrVal(NotAvailable)

TryStep(at, key, value, next) ==
    /\ pc = at
    /\ metrics' = SetKey(metrics, key, value)
    /\ pc' = next
    /\ UNCHANGED <<G, cent>>
    /\ UNCHANGED cnaVars
    /\ UNCHANGED parseVars

\* line 312
TryMostConnected ==
    TryStep("try_most_connected", "most_connected", MostOf(cent.degree),
            "try_most_between")
\* line 313
TryMostBetween ==
    TryStep("try_most_between", "most_between", MostOf(cent.betweenness),
            "try_most_close")
\* line 314
TryMostClose ==
    TryStep("try_most_close", "most_close", MostOf(cent.closeness),
            "try_degree_top5")
\* lines 317-318
TryDegreeTop5 ==
    TryStep("try_degree_top5", "degree_top5", Top5(cent.degree),
            "try_betweenness_top5")
\* lines 319-320
TryBetweennessTop5 ==
    TryStep("try_betweenness_top5", "betweenness_top5",
            Top5(cent.betweenness), "try_closeness_top5")
\* lines 321-322, then the return of line 333
TryClosenessTop5 ==
    TryStep("try_closeness_top5", "closeness_top5", Top5(cent.closeness),
            "done")

TryPcs == {"try_centrality", "try_most_connected", "try_most_between",
           "try_most_close", "try_degree_top5", "try_betweenness_top5",
           "try_closeness_top5"}

\* a statement of the try block raises an Exception instead of completing
Raise ==
    /\ pc \in TryPcs
    /\ pc' = "except"
    /\ UNCHANGED <<G, cent, metrics>>
    /\ UNCHANGED cnaVars
    /\ UNCHANGED parseVars

\* faulty variant: the handler leaves degree_top5 as the try block left it
ExceptMetricsKeepTop(m) ==
    LET m1 == SetKey(m, "most_connected", StrVal(NotComputable))
        m2 == SetKey(m1, "most_between", StrVal(NotComputable))
        m3 == SetKey(m2, "most_close", StrVal(NotComputable))
        m5 == SetKey(m3, "betweenness_top5", <<>>)
    IN  SetKey(m5, "closeness_top5", <<>>)

\* lines 324-331: the handler overwrites the six centrality outputs
ExceptMetrics(m) ==
    LET m1 == SetKey(m, "most_connected", StrVal(NotComputable))
        m2 == SetKey(m1, "most_between", StrVal(NotComputable))
        m3 == SetKey(m2, "most_close", StrVal(NotComputable))
        m4 == SetKey(m3, "degree_top5", <<>>)
        m5 == SetKey(m4, "betweenness_top5", <<>>)
    IN  SetKey(m5, "closeness_top5", <<>>)

Except ==
    /\ pc = "except"
    /\ metrics' = ExceptMetrics(metrics)
    /\ pc' = "done_degraded"
    /\ UNCHANGED <<G, cent>>
    /\ UNCHANGED cnaVars
    /\ UNCHANGED parseVars

----------------------------------------------------------------------------
(* parse_gpt_response: the loop over the items *)

networkVars == <<text, keywords_dict, min_cooccurrence, sentences, sent_idx,
                 co_occurrence, G, cent, metrics>>

\* lines 111-115
ParseStart ==
    /\ pc = "parse_start"
    /\ parsed' = <<>>
    /\ items' = SplitOn(response_text, ",", 1, <<>>)
    /\ item_idx' = 1
    /\ pc' = "parse_loop"
    /\ UNCHANGED response_text
    /\ UNCHANGED networkVars

\* lines 117-136: one iteration of `for item in items`
ParseItem ==
    /\ pc = "parse_loop"
    /\ item_idx <= Len(items)
    /\ LET item == Strip(items[item_idx])
       IN  parsed' = IF item = <<>> THEN parsed
                     ELSE Put(parsed, ItemEntry(item)[1], ItemEntry(item)[2])
    /\ item_idx' = item_idx + 1
    /\ UNCHANGED <<pc, response_text, items>>
    /\ UNCHANGED networkVars

\* line 138
ParseReturn ==
    /\ pc = "parse_loop"
    /\ item_idx > Len(items)
    /\ pc' = "parse_done"
    /\ UNCHANGED parseVars
    /\ UNCHANGED networkVars

----------------------------------------------------------------------------
(* The request of lines 482-492: build the network, then analyze it *)

Texts == UNION {[1..n -> TextAlphabet] : n \in 0..MaxTextLen}

KeywordDicts ==
    UNION {{[i \in 1..Len(o) |-> <<o[i], w[i]>>] :
               w \in [1..Len(o) -> InputWeights]} :
           o \in UNION {Orders(S) : S \in SUBSET KeywordUniverse}}

ParseIdle ==
    /\ response_text = <<>>
    /\ items = <<>>
    /\ item_idx = 1
    /\ parsed = <<>>

Init ==
    /\ pc = "cna_start"
    /\ text \in Texts
    /\ keywords_dict \in KeywordDicts
    /\ min_cooccurrence \in 1..MaxThreshold
    /\ sentences = <<>>
    /\ sent_idx = 1
    /\ co_occurrence = EmptyCounter
    /\ G = NoneGraph
    /\ cent = NoCent
    /\ metrics = EmptyMetrics
    /\ ParseIdle

NextMetrics ==
    \/ AmxStart
    \/ TryCentrality
    \/ TryMostConnected
    \/ TryMostBetween
    \/ TryMostClose
    \/ TryDegreeTop5
    \/ TryBetweennessTop5
    \/ TryClosenessTop5
    \/ Raise
    \/ Except

\* create_network_analysis, then the entry of analyze_network_metrics on
\* its result; the try block is explored under SpecMetrics
Next ==
    \/ CnaStart
    \/ CnaSentence
    \/ CnaBuild
    \/ AmxStart

Spec == Init /\ [][Next]_vars

----------------------------------------------------------------------------
(* The analyzer alone, on every graph of at most MaxEdges edges over        *)
(* MetricNodes.  The builder returns a graph whose nodes all have an edge,  *)
(* in any node order; the node order here is that of MetricNodes, and the   *)
(* edge sets range over every shape, so every shape is met in every order   *)
(* up to the names of the nodes.                                            *)

MetricPairs ==
    {{MetricNodes[i], MetricNodes[j]} : i, j \in 1..Len(MetricNodes)}
        \ {{MetricNodes[i]} : i \in 1..Len(MetricNodes)}

GraphOf(E) ==
    LET ns == SelectSeq(MetricNodes, LAMBDA v : v \in UNION E)
    IN  [none |-> FALSE,
         nodes |-> ns,
         weight |-> [v \in UNION E |-> 5],
         edges |-> [e \in E |-> 1]]

InitMetrics ==
    /\ pc = "amx_start"
    /\ \/ G = NoneGraph
       \/ \E E \in SUBSET MetricPairs :
              /\ Cardinality(E) \in 1..MaxEdges
              /\ G = GraphOf(E)
    /\ keywords_dict = [i \in 1..Len(G.nodes) |-> <<G.nodes[i], 5>>]
    /\ text = <<>>
    /\ min_cooccurrence = 1
    /\ sentences = <<>>
    /\ sent_idx = 1
    /\ co_occurrence = EmptyCounter
    /\ cent = NoCent
    /\ metrics = EmptyMetrics
    /\ ParseIdle

SpecMetrics == InitMetrics /\ [][NextMetrics]_vars

----------------------------------------------------------------------------
(* Properties of create_network_analysis, checked under Spec *)

\* create_network_analysis has returned and its result is not yet analyzed
Returned == pc = "amx_start"

\* number of the first n fragments that contain both a and b
FragmentsWithBoth(sents, a, b, n) ==
    Cardinality({i \in 1..n : Contains(a, sents[i]) /\ Contains(b, sents[i])})

\* the count the table holds for the unordered pair {a, b}
Recorded(counter, a, b) ==
    (IF <<a, b>> \in DOMAIN counter THEN counter[<<a, b>>] ELSE 0)
        + (IF <<b, a>> \in DOMAIN counter THEN counter[<<b, a>>] ELSE 0)

\* C1: a returned graph has both endpoints of every edge among its nodes,
\* no node without an edge, and no edge weight below the threshold.
C1_GraphInvariants ==
    (Returned /\ ~G.none) =>
        /\ \A e \in EdgeSet(G) : e \subseteq NodeSet(G)
        /\ \A v \in NodeSet(G) : Degree(G, v) >= 1
        /\ \A e \in EdgeSet(G) : G.edges[e] >= min_cooccurrence

\* a graph was returned at threshold 2 and a keyword was left out of it
C1_Witness ==
    /\ Returned
    /\ ~G.none
    /\ min_cooccurrence >= 2
    /\ \E k \in KeySet(keywords_dict) : k \notin NodeSet(G)

\* C2 (state part): after the first sent_idx - 1 fragments, the count held
\* for two distinct keywords is the number of those fragments containing both.
C2_CountIsFragments ==
    pc = "cna_loop" =>
        \A a, b \in KeySet(keywords_dict) :
            a # b => Recorded(co_occurrence, a, b)
                        = FragmentsWithBoth(sentences, a, b, sent_idx - 1)

\* C2 (step part): a fragment with n found keywords raises exactly C(n,2)
\* counters, each by exactly 1, and leaves the others alone.
C2_Step ==
    CnaSentence =>
        LET n == Len(FoundKeywords(Keys(keywords_dict), sentences[sent_idx]))
            old(k) == IF k \in DOMAIN co_occurrence THEN co_occurrence[k] ELSE 0
            raised == {k \in DOMAIN co_occurrence' : co_occurrence'[k] # old(k)}
        IN  /\ DOMAIN co_occurrence \subseteq DOMAIN co_occurrence'
            /\ 2 * Cardinality(raised) = n * (n - 1)
            /\ \A k \in raised : co_occurrence'[k] = old(k) + 1

\* C2: the count of a pair of distinct keywords is the number of fragments
\* holding both as substrings; a fragment with n found keywords increments
\* exactly C(n,2) counters by exactly 1.
C2_PairCounts == [](C2_CountIsFragments) /\ [][C2_Step]_vars

\* every fragment of a text of several fragments is counted, and one of
\* them held three keywords, one of which occurs twice in it
C2_Witness ==
    /\ pc = "cna_loop"
    /\ sent_idx > Len(sentences)
    /\ \E i \in 1..Len(sentences) :
          /\ Len(FoundKeywords(Keys(keywords_dict), sentences[i])) = 3
          /\ \E k \in KeySet(keywords_dict) :
                \E p, q \in 0..(Len(sentences[i]) - Len(k)) :
                    /\ p < q
                    /\ SubSeq(sentences[i], p + 1, p + Len(k)) = k
                    /\ SubSeq(sentences[i], q + 1, q + Len(k)) = k
    /\ Len(sentences) >= 2

\* C3: the table never holds a pair in both orders nor a pair of a keyword
\* with itself; the graph has no self-loop and one edge per surviving pair.
C3_PairCanonical ==
    /\ \A k \in DOMAIN co_occurrence :
          /\ k[1] # k[2]
          /\ <<k[2], k[1]>> \notin DOMAIN co_occurrence
    /\ (Returned /\ ~G.none) =>
          /\ \A v \in NodeSet(G) : {v} \notin EdgeSet(G)
          /\ NumberOfEdges(G) = Cardinality(DOMAIN
                 FilterCoOccurrence(co_occurrence, min_cooccurrence))

\* a graph was returned and a pair was found in the order opposite to the
\* one it is stored in
C3_Witness ==
    /\ Returned
    /\ ~G.none
    /\ \E i, j \in 1..Len(keywords_dict) :
          /\ i < j
          /\ StrLess(keywords_dict[j][1], keywords_dict[i][1])
          /\ <<keywords_dict[j][1], keywords_dict[i][1]>> \in DOMAIN co_occurrence

\* some pair of distinct keywords shares at least min_cooccurrence fragments
SomePairQualifies ==
    \E a, b \in KeySet(keywords_dict) :
        /\ a # b
        /\ FragmentsWithBoth(ReSplit(text), a, b, Len(ReSplit(text)))
               >= min_cooccurrence

\* C4: "no graph" is returned exactly when there are fewer than 2 keywords
\* or no pair reaches the threshold; otherwise the graph has >= 2 nodes;
\* analyze_network_metrics given "no graph" returns the empty dict.
C4_NoGraph ==
    /\ Returned =>
          /\ G.none <=> (Len(keywords_dict) < 2 \/ ~SomePairQualifies)
          /\ ~G.none => NumberOfNodes(G) >= 2
    /\ (pc \notin {"cna_start", "cna_loop", "amx_start"} /\ G.none) =>
          /\ pc = "done"
          /\ DOMAIN metrics = {}

\* pairs were counted, none reached the threshold, and the analyzer returned
C4_Witness ==
    /\ pc = "done"
    /\ G.none
    /\ Len(keywords_dict) >= 2
    /\ DOMAIN co_occurrence # {}
    /\ DOMAIN metrics = {}

\* edges of the graph the same text and keywords give at threshold t
EdgesAt(t) ==
    LET g == CreateNetworkAnalysis(text, keywords_dict, t, <<>>)
    IN  IF g.none THEN [e \in {} |-> 0] ELSE g.edges

\* C5: at a threshold t2 >= t1 the graph has no more edges than at t1, and
\* each of its edges is an edge at t1 with the same weight.
C5_Monotonic ==
    Returned =>
        LET e1 == IF G.none THEN [e \in {} |-> 0] ELSE G.edges
        IN  \A t2 \in min_cooccurrence..(MaxThreshold + 1) :
                LET e2 == EdgesAt(t2)
                IN  /\ Cardinality(DOMAIN e2) <= Cardinality(DOMAIN e1)
                    /\ \A e \in DOMAIN e2 : e \in DOMAIN e1 /\ e1[e] = e2[e]

\* the graph at threshold 1 has edges that the graph at threshold 2 lacks,
\* and the latter still has one
C5_Witness ==
    /\ Returned
    /\ ~G.none
    /\ min_cooccurrence = 1
    /\ DOMAIN EdgesAt(2) # {}
    /\ Cardinality(DOMAIN EdgesAt(2)) < NumberOfEdges(G)

----------------------------------------------------------------------------
(* Properties of analyze_network_metrics, checked under SpecMetrics *)

\* the graph was accepted: line 289 did not return
Accepted == pc # "amx_start" /\ ~G.none /\ NumberOfNodes(G) >= 2

\* the three centrality dicts are computed
Computed == Accepted /\ pc # "try_centrality" /\ cent.degree # <<>>

\* a connected component: a non-empty set of nodes that no edge leaves and
\* that has no non-empty proper subset no edge leaves
Closed(g, S) == \A e \in EdgeSet(g) : e \cap S = {} \/ e \subseteq S
ComponentsOf(g) ==
    {S \in SUBSET NodeSet(g) :
        /\ S # {}
        /\ Closed(g, S)
        /\ \A T \in SUBSET S : (T # {} /\ T # S) => ~Closed(g, T)}

\* C6: a connected graph is reported with 1 component and the density
\* 2 edges / (nodes (nodes - 1)), so 1/2 for 4 nodes and 3 edges and 1 for a
\* triangle; a disconnected one with the placeholder as density and its
\* actual number (>= 2) of components.
C6_DensityComponents ==
    (Accepted /\ pc \in {"try_centrality", "done", "done_degraded"}) =>
        LET k == Cardinality(ComponentsOf(G))
            n == NumberOfNodes(G)
            m == NumberOfEdges(G)
        IN  /\ metrics.nodes = n
            /\ metrics.edges = m
            /\ metrics.components = k
            /\ k = 1 =>
                  /\ metrics.density.tag = "float"
                  /\ FracEq(metrics.density.val, <<2 * m, n * (n - 1)>>)
                  /\ (n = 4 /\ m = 3) => FracEq(metrics.density.val, <<1, 2>>)
                  /\ (n = 3 /\ m = 3) => FracEq(metrics.density.val, <<1, 1>>)
            /\ k # 1 =>
                  /\ k >= 2
                  /\ metrics.density.tag = "str"
                  /\ metrics.density.val = NotConnectedMsg

\* a graph of two components, one of them holding a path of three nodes,
\* was analyzed
C6_Witness ==
    /\ pc = "done"
    /\ Accepted
    /\ metrics.components = 2
    /\ metrics.density.tag = "str"
    /\ \E v \in NodeSet(G) : Cardinality(Neighbors(G, v)) = 2

\* sum of the scores of a dict
RECURSIVE ScoreSum(_, _)
ScoreSum(d, i) ==
    IF i > Len(d) THEN <<0, 1>> ELSE FracAdd(d[i][2], ScoreSum(d, i + 1))

BasicKeys == {"nodes", "edges", "density", "components"}
CentralityKeys == {"most_connected", "most_between", "most_close",
                   "degree_top5", "betweenness_top5", "closeness_top5"}

\* C8 (state part): after a failure the six centrality outputs are the
\* placeholder and the empty list, whatever the try block had assigned.
C8_Placeholders ==
    pc = "done_degraded" =>
        /\ DOMAIN metrics = BasicKeys \cup CentralityKeys
        /\ \A k \in {"most_connected", "most_between", "most_close"} :
              metrics[k].tag = "str" /\ metrics[k].val = NotComputable
        /\ \A k \in {"degree_top5", "betweenness_top5", "closeness_top5"} :
              metrics[k] = <<>>

\* C8 (step part): a failure is handled, and neither the try block, the
\* failure nor the handler touches nodes, edges, density and components.
C8_Preserved ==
    /\ (pc \in TryPcs \cup {"except"}) =>
          /\ BasicKeys \subseteq DOMAIN metrics'
          /\ \A k \in {"nodes", "edges", "components"} :
                metrics'[k] = metrics[k]
          /\ metrics'.density.tag = metrics.density.tag
          /\ metrics'.density.val = metrics.density.val
    /\ pc = "except" => pc' = "done_degraded"

\* C8: a failure anywhere in the try block ends in a normal return with
\* placeholders for the argmax outputs, empty top lists and the basic
\* results as computed before.
C8_Degrades == [](C8_Placeholders) /\ [][C8_Preserved]_vars

\* the analysis of a disconnected graph of six nodes failed in the try
\* block, the handler ran and the analyzer returned
C8_Witness ==
    /\ pc = "done_degraded"
    /\ NumberOfNodes(G) = 6
    /\ metrics.nodes = 6
    /\ metrics.components = 2
    /\ metrics.degree_top5 = <<>>

Score(d, v) == d[CHOOSE i \in 1..Len(d) : d[i][1] = v][2]

\* the ranking outputs of one measure
RankedRight(d, top, most) ==
    LET n == Len(d)
        listed == {top[i][1] : i \in 1..Len(top)}
    IN  /\ Len(top) = IF n < 5 THEN n ELSE 5
        /\ Cardinality(listed) = Len(top)
        /\ \A i \in 1..Len(top) :
              /\ \E j \in 1..n : d[j] = top[i]
              /\ i < Len(top) => FracLeq(top[i + 1][2], top[i][2])
              /\ \A j \in 1..n :
                    d[j][1] \notin listed => FracLeq(d[j][2], top[i][2])
        /\ most.tag = "node"
        /\ \A j \in 1..n : FracLeq(d[j][2], Score(d, most.val))
        /\ top[1][1] = most.val

\* C10: on success each top list holds min(5, nodes) distinct nodes in
\* non-increasing score order, no unlisted node beats a listed one, and the
\* argmax node has the maximum score and heads the list.
C10_Ranking ==
    (pc = "done" /\ Accepted) =>
        /\ RankedRight(cent.degree, metrics.degree_top5,
                       metrics.most_connected)
        /\ RankedRight(cent.betweenness, metrics.betweenness_top5,
                       metrics.most_between)
        /\ RankedRight(cent.closeness, metrics.closeness_top5,
                       metrics.most_close)

\* six nodes were ranked; the maximum degree is shared, by a node that is
\* not the first in node order among others, and a node is cut from the list
C10_Witness ==
    /\ pc = "done"
    /\ Accepted
    /\ NumberOfNodes(G) = 6
    /\ Len(metrics.degree_top5) = 5
    /\ \E i, j \in 2..6 :
          /\ i < j
          /\ cent.degree[i][1] = metrics.most_connected.val
          /\ FracEq(cent.degree[i][2], cent.degree[j][2])
          /\ FracLess(cent.degree[1][2], cent.degree[i][2])

----------------------------------------------------------------------------
(* parse_gpt_response alone, on every response of at most MaxRespLen        *)
(* characters of RespAlphabet                                               *)

Responses == UNION {[1..n -> RespAlphabet] : n \in 0..MaxRespLen}

InitParse ==
    /\ pc = "parse_start"
    /\ response_text \in Responses
    /\ items = <<>>
    /\ item_idx = 1
    /\ parsed = <<>>
    /\ text = <<>>
    /\ keywords_dict = <<>>
    /\ min_cooccurrence = 1
    /\ sentences = <<>>
    /\ sent_idx = 1
    /\ co_occurrence = EmptyCounter
    /\ G = NoneGraph
    /\ cent = NoCent
    /\ metrics = EmptyMetrics

NextParse ==
    \/ ParseStart
    \/ ParseItem
    \/ ParseReturn

SpecParse == InitParse /\ [][NextParse]_vars

----------------------------------------------------------------------------
(* Properties of parse_gpt_response, checked under SpecParse *)

\* the non-empty trimmed items among the first n comma-separated items
TrimmedItem(j) == Strip(items[j])
Handled(n) == {j \in 1..n : TrimmedItem(j) # <<>>}

HasSpace(item) == \E i \in 1..Len(item) : item[i] = " "
\* the text before the last space, trimmed, and the token behind it
BeforeLastSpace(item) == Strip(SubSeq(item, 1, LastIndexOf(item, " ") - 1))
TrailingToken(item) == SubSeq(item, LastIndexOf(item, " ") + 1, Len(item))
TrailingIsInt(item) == HasSpace(item) /\ IntOf(TrailingToken(item)).ok

\* the weight both statements give an item
WeightOf(item) ==
    IF TrailingIsInt(item) /\ IntOf(TrailingToken(item)).val \in 1..10
    THEN IntOf(TrailingToken(item)).val
    ELSE 5

\* the key of the claim as stated: always the text before the last space
StatedKey(item) == IF HasSpace(item) THEN BeforeLastSpace(item) ELSE item

\* the key as amended: the whole item when the trailing token is no integer
AmendedKey(item) == IF TrailingIsInt(item) THEN BeforeLastSpace(item) ELSE item

\* the dict holds, for the items handled so far, exactly their keys under
\* Key, each once, with the weight of the last item of that key, in [1,10]
ParsedAs(Key(_)) ==
    LET n == item_idx - 1
    IN  /\ KeySet(parsed) = {Key(TrimmedItem(j)) : j \in Handled(n)}
        /\ \A i, k \in 1..Len(parsed) : parsed[i][1] = parsed[k][1] => i = k
        /\ \A i \in 1..Len(parsed) :
              /\ parsed[i][1] # <<>>
              /\ parsed[i][2] \in 1..10
              /\ \E j \in Handled(n) :
                    /\ Key(TrimmedItem(j)) = parsed[i][1]
                    /\ parsed[i][2] = WeightOf(TrimmedItem(j))
                    /\ \A l \in Handled(n) :
                          Key(TrimmedItem(l)) = parsed[i][1] => l <= j

\* C9 as stated: every item with a space is stored under the trimmed text
\* before its last space, with the trailing token as weight if that is an
\* integer in [1,10] and 5 if not; an item without a space is stored whole
\* with weight 5; weights are in [1,10] and the last weight of a key wins.
C9_AsStated ==
    pc \in {"parse_loop", "parse_done"} => ParsedAs(StatedKey)

\* C9 as amended: as stated, except that an item whose trailing token is not
\* an integer at all is stored whole (trailing token included), weight 5.
C9_Amended ==
    pc \in {"parse_loop", "parse_done"} => ParsedAs(AmendedKey)

\* a response of two items was parsed, one of them with a trailing token
\* that is no integer, stored whole
C9_Witness ==
    /\ pc = "parse_done"
    /\ Len(parsed) = 2
    /\ \E j \in Handled(Len(items)) :
          /\ HasSpace(TrimmedItem(j))
          /\ ~TrailingIsInt(TrimmedItem(j))
          /\ \E i \in 1..Len(parsed) : parsed[i][1] = TrimmedItem(j)

----------------------------------------------------------------------------
(* create_network_analysis alone, on every text of at most MaxSplitLen      *)
(* characters of SplitAlphabet and every subset of SplitKeywords, at the    *)
(* default threshold 1 (the one that keeps every counted pair)              *)

SplitTexts == UNION {[1..n -> SplitAlphabet] : n \in 0..MaxSplitLen}

SplitDicts ==
    {[i \in 1..Len(ks) |-> <<ks[i], 5>>] :
        ks \in {SelectSeq(SplitKeywords, LAMBDA k : k \in S) :
                   S \in SUBSET {SplitKeywords[i] : i \in 1..Len(SplitKeywords)}}}

InitSplit ==
    /\ pc = "cna_start"
    /\ text \in SplitTexts
    /\ keywords_dict \in SplitDicts
    /\ min_cooccurrence = 1
    /\ sentences = <<>>
    /\ sent_idx = 1
    /\ co_occurrence = EmptyCounter
    /\ G = NoneGraph
    /\ cent = NoCent
    /\ metrics = EmptyMetrics
    /\ ParseIdle

NextSplit ==
    \/ CnaStart
    \/ CnaSentence
    \/ CnaBuild

SpecSplit == InitSplit /\ [][NextSplit]_vars

----------------------------------------------------------------------------
(* Properties of the splitter, checked under SpecSplit *)

HasTerminator(str) == \E i \in 1..Len(str) : str[i] \in {".", "!", "?"}

\* the text was split: line 158 has run
SplitDone == pc = "cna_loop" \/ (pc = "amx_start" /\ Len(keywords_dict) >= 2)

\* C11: no fragment holds '.', '!' or '?', and a text without them is its
\* own single fragment; so a keyword holding one of them is found in no
\* fragment, is in no pair of the table and is no node of the graph.
C11_NoTerminatorInFragment ==
    /\ SplitDone =>
          /\ \A i \in 1..Len(sentences) : ~HasTerminator(sentences[i])
          /\ ~HasTerminator(text) => sentences = <<text>>
          /\ \A k \in KeySet(keywords_dict) :
                HasTerminator(k) =>
                    \A i \in 1..Len(sentences) :
                        \A j \in 1..Len(FoundKeywords(Keys(keywords_dict),
                                                      sentences[i])) :
                            FoundKeywords(Keys(keywords_dict),
                                          sentences[i])[j] # k
    /\ \A p \in DOMAIN co_occurrence :
          ~HasTerminator(p[1]) /\ ~HasTerminator(p[2])
    /\ ~G.none => \A v \in NodeSet(G) : ~HasTerminator(v)

\* a graph was returned for a text that holds, letter for letter, a keyword
\* with a terminator, and that keyword is not among its nodes
C11_Witness ==
    /\ pc = "amx_start"
    /\ ~G.none
    /\ Len(sentences) >= 2
    /\ \E k \in KeySet(keywords_dict) :
          /\ HasTerminator(k)
          /\ Contains(k, text)
          /\ k \notin NodeSet(G)

====
